---- MODULE Spec2Model ----
(***************************************************************************)
(* XWS container / KWB2 sound bank extraction (extract_kwb_multi.py) and   *)
(* rebuild (repack_kwb_multi.py).  Files are sequences of bytes; byte k of *)
(* a file (0-based, as the code addresses it) is element k+1.              *)
(***************************************************************************)
EXTENDS Integers, Sequences, FiniteSets, TLC

VARIABLES
    pc,             \* where the running script is
    xws,            \* the container file handed to parse_xws (first pass)
    disk,           \* extracted audio files of the first pass: name -> bytes
    layout,         \* layout.json of the first pass (its "chunks" list)
    out,            \* the container file repack writes
    pass,           \* 1: extraction of xws, 2: extraction of the rebuilt file
    chunks,         \* parse_xws: slot count read at 0x18
    table1_offset,  \* parse_xws: slot table address read at 0x20
    i,              \* parse_xws: slot index
    kwb_index,      \* parse_xws: number of KWB2 chunks found
    acc,            \* parse_xws: layout["chunks"] in progress
    k_idx,          \* repack: index of the next bank
    table1_start,   \* repack: position of the slot table
    table1_offsets, \* repack: recorded chunk positions
    disk2,          \* audio files of the second pass
    layout2,        \* layout.json of the second pass
    edits,          \* SpecWav: number of times the written file was damaged
    wav_args,       \* SpecWav: arguments of write_wav_msadpcm
    wav_ret         \* SpecWav: what read_wav_data returned

vars == <<pc, xws, disk, layout, out, pass, chunks, table1_offset, i, kwb_index,
          acc, k_idx, table1_start, table1_offsets, disk2, layout2, edits,
          wav_args, wav_ret>>

----------------------------------------------------------------------------
(* Bounds of the model *)

\* longest audio stream drawn for an input
MaxData == 2
\* most sound entries of an input bank
MaxEntries == 2
\* most items in the slot table of an input container of SpecScan
MaxItems == 3
\* most banks of a manifest of SpecRepack
MaxBanks == 2

----------------------------------------------------------------------------
(* struct.pack / struct.unpack *)

Min(a, b) == IF a < b THEN a ELSE b

Zeros(n) == [z \in 1..n |-> 0]

\* struct.pack('<B'|'<H'|'<I', v) raises struct.error outside the range.
\* Every number of the model stays below 2^31, so only the sign can keep a
\* value out of four bytes.
FitsU(v, width) == v >= 0 /\ (width >= 4 \/ v < 256 ^ width)

RECURSIVE PackLE(_, _)
PackLE(v, width) ==
    IF width = 0 THEN <<>> ELSE <<v % 256>> \o PackLE(v \div 256, width - 1)

\* struct.pack('<h', v): two's complement
PackS16(v) == PackLE((v + 65536) % 65536, 2)

\* f.seek(off); f.read(n): short at end of file
Slice(f, off, n) == SubSeq(f, off + 1, Min(off + n, Len(f)))

CanRead(f, off, n) == off >= 0 /\ off + n <= Len(f)

RECURSIVE UnpackLE(_)
UnpackLE(b) == IF b = <<>> THEN 0 ELSE b[1] + 256 * UnpackLE(Tail(b))

RECURSIVE UnpackBE(_)
UnpackBE(b) ==
    IF b = <<>> THEN 0 ELSE b[Len(b)] + 256 * UnpackBE(SubSeq(b, 1, Len(b) - 1))

read_u8(f, off) == UnpackLE(Slice(f, off, 1))
read_u16le(f, off) == UnpackLE(Slice(f, off, 2))
read_u32le(f, off) == UnpackLE(Slice(f, off, 4))
read_u32be(f, off) == UnpackBE(Slice(f, off, 4))
read_id32be(f, off) == Slice(f, off, 4)

\* f.seek(pos); f.write(b) on a file opened 'wb'
WriteAt(f, pos, b) ==
    LET gap == IF pos > Len(f) THEN Zeros(pos - Len(f)) ELSE <<>>
        head == SubSeq(f, 1, Min(pos, Len(f))) \o gap
        rest == SubSeq(f, pos + Len(b) + 1, Len(f))
    IN  head \o b \o rest

----------------------------------------------------------------------------
(* Four-byte tags *)

TagRIFF == <<82, 73, 70, 70>>
TagWAVE == <<87, 65, 86, 69>>
TagFmt  == <<102, 109, 116, 32>>
TagData == <<100, 97, 116, 97>>
TagKWB2 == <<75, 87, 66, 50>>
TagXWSF == <<88, 87, 83, 70>>
TagTdpa == <<116, 100, 112, 97>>

----------------------------------------------------------------------------
(* Audio-container codec: write_wav_msadpcm and read_wav_data *)

coeffs == << <<256, 0>>, <<512, -256>>, <<0, 0>>, <<192, 64>>,
             <<240, 0>>, <<460, -208>>, <<392, -232>> >>

samples_per_block(block_align, channels) ==
    ((block_align - (7 * channels)) * 2) \div channels + 2

\* fmt_chunk_size without the coefficient table's count field
FmtSizeShort == 18 + 30

\* size written into the format section's header
fmt_chunk_size == 50

\* One struct.pack'ed field: [ok |-> the pack did not raise, b |-> its bytes]
Field(v, width) ==
    IF FitsU(v, width) THEN [ok |-> TRUE, b |-> PackLE(v, width)]
    ELSE [ok |-> FALSE, b |-> <<>>]

Raw(b) == [ok |-> TRUE, b |-> b]

\* The writes of a `with open(...)` body in order, up to the first that raises
RECURSIVE WriteFields(_, _, _)
WriteFields(fields, k, f) ==
    IF k > Len(fields) THEN [raised |-> FALSE, bytes |-> f]
    ELSE IF ~fields[k].ok THEN [raised |-> TRUE, bytes |-> f]
    ELSE WriteFields(fields, k + 1, f \o fields[k].b)

RECURSIVE CoeffBytes(_)
CoeffBytes(k) ==
    IF k > Len(coeffs) THEN <<>>
    ELSE PackS16(coeffs[k][1]) \o PackS16(coeffs[k][2]) \o CoeffBytes(k + 1)

\* [raised, created, bytes]: whether the call raised, whether the file was
\* opened (created) before that, and the bytes it then holds
write_wav_msadpcm(data, channels, sample_rate, block_align) ==
    IF channels = 0 THEN [raised |-> TRUE, created |-> FALSE, bytes |-> <<>>]
    ELSE
    LET spb == samples_per_block(block_align, channels) IN
    IF spb = 0 THEN [raised |-> TRUE, created |-> FALSE, bytes |-> <<>>]
    ELSE
    LET byte_rate == (sample_rate * block_align) \div spb
        fields == << Raw(TagRIFF), Field(0, 4), Raw(TagWAVE),
                     Raw(TagFmt), Field(fmt_chunk_size, 4), Field(2, 2),
                     Field(channels, 2), Field(sample_rate, 4),
                     Field(byte_rate, 4), Field(block_align, 2), Field(4, 2),
                     Field(32, 2), Field(spb, 2), Field(Len(coeffs), 2),
                     Raw(CoeffBytes(1)),
                     Raw(TagData), Field(Len(data), 4), Raw(data) >>
        w == WriteFields(fields, 1, <<>>)
    IN  IF w.raised THEN [raised |-> TRUE, created |-> TRUE, bytes |-> w.bytes]
        ELSE [raised |-> FALSE, created |-> TRUE,
              bytes |-> WriteAt(w.bytes, 4, PackLE(Len(w.bytes) - 8, 4))]

\* The `while True` loop of read_wav_data from file position pos.
\* [exc |-> an exception was raised inside the try, data |-> the return value]
RECURSIVE ScanWavChunks(_, _)
ScanWavChunks(f, pos) ==
    LET chunk_id == Slice(f, pos, 4)
        size_b   == Slice(f, pos + 4, 4)
    IN  IF Len(chunk_id) < 4 THEN [exc |-> FALSE, data |-> <<>>]
        ELSE IF Len(size_b) < 4 THEN [exc |-> TRUE, data |-> <<>>]
        ELSE IF chunk_id = TagData
             THEN [exc |-> FALSE, data |-> Slice(f, pos + 8, UnpackLE(size_b))]
        ELSE ScanWavChunks(f, pos + 8 + UnpackLE(size_b))

\* The try block of read_wav_data
WavTry(f) ==
    IF Slice(f, 0, 4) # TagRIFF THEN [exc |-> TRUE, data |-> <<>>]
    ELSE IF Slice(f, 8, 4) # TagWAVE THEN [exc |-> TRUE, data |-> <<>>]
    ELSE ScanWavChunks(f, 12)

\* [raised |-> an exception escapes the call, data |-> the bytes returned]
read_wav_data(f) ==
    LET t == WavTry(f)
    IN  IF t.exc THEN [raised |-> FALSE, data |-> <<>>]
        ELSE [raised |-> FALSE, data |-> t.data]

----------------------------------------------------------------------------
(* KWB2 bank: parse_kwb2 *)

\* fixed layout of a sound entry: first subsound record and record size
SubsoundStart == 44
SubsoundSize == 72
\* versions from here on carry their own start and size
TableDrivenVersion == 49152
\* the one codec id whose stream is extracted
CodecMSADPCM == 16
\* the bank header's offset table
OffsetTableAt == 24

\* name of an extracted audio file: test_extracted_kwb/kwb_<k>/<t>.wav
WavPath(k, t) == <<k, t>>

NoFiles == <<>>

\* open(filename, 'wb') and the writes made before the call returned or raised
PutFile(files, name, w) ==
    IF ~w.created THEN files
    ELSE [n \in (DOMAIN files) \cup {name} |-> IF n = name THEN w.bytes ELSE files[n]]

\* One subsound record at current_sub_offset.  st is the state of the
\* enclosing call: [raised, subs, files, track_count].
ParseSubsound(f, body_offset, k, current_sub_offset, st) ==
    IF ~CanRead(f, current_sub_offset + 2, 1) THEN [st EXCEPT !.raised = TRUE]
    ELSE
    LET codec == read_u8(f, current_sub_offset + 2) IN
    IF codec # CodecMSADPCM THEN st
    ELSE IF ~(/\ CanRead(f, current_sub_offset, 2)
              /\ CanRead(f, current_sub_offset + 3, 1)
              /\ CanRead(f, current_sub_offset + 4, 2)
              /\ CanRead(f, current_sub_offset + 16, 4)
              /\ CanRead(f, current_sub_offset + 20, 4))
    THEN [st EXCEPT !.raised = TRUE]
    ELSE
    LET sample_rate == read_u16le(f, current_sub_offset)
        channels == read_u8(f, current_sub_offset + 3)
        block_size == read_u16le(f, current_sub_offset + 4)
        stream_rel_offset == read_u32le(f, current_sub_offset + 16)
        stream_size == read_u32le(f, current_sub_offset + 20)
        audio_data == Slice(f, body_offset + stream_rel_offset, stream_size)
        name == WavPath(k, st.track_count)
        w == write_wav_msadpcm(audio_data, channels, sample_rate, block_size)
        subsound_info == [filename |-> name, sample_rate |-> sample_rate,
                          channels |-> channels, block_size |-> block_size,
                          original_stream_size |-> stream_size, codec |-> codec]
    IN  IF w.raised
        THEN [st EXCEPT !.raised = TRUE, !.files = PutFile(st.files, name, w)]
        ELSE [raised |-> FALSE, subs |-> Append(st.subs, subsound_info),
              files |-> PutFile(st.files, name, w),
              track_count |-> st.track_count + 1]

\* for j in range(subsounds_count), from j on
RECURSIVE ParseSubsounds(_, _, _, _, _, _, _, _)
ParseSubsounds(f, body_offset, k, subsound_base, subsound_size, j, count, st) ==
    IF st.raised \/ j >= count THEN st
    ELSE ParseSubsounds(f, body_offset, k, subsound_base, subsound_size, j + 1, count,
             ParseSubsound(f, body_offset, k, subsound_base + j * subsound_size, st))

\* One pass of `for i in range(sounds)`: es is [raised, entries, files, track_count]
ParseSoundEntry(f, head_offset, body_offset, k, idx, es) ==
    LET entry_offset_loc == head_offset + OffsetTableAt + idx * 4 IN
    IF ~CanRead(f, entry_offset_loc, 4) THEN [es EXCEPT !.raised = TRUE]
    ELSE
    LET sound_rel_offset == read_u32le(f, entry_offset_loc)
        entry_info == [entry_index |-> idx, offset_loc_rel |-> OffsetTableAt + idx * 4,
                       has_version |-> FALSE, version |-> 0, subsounds |-> <<>>]
    IN
    IF sound_rel_offset = 0
    THEN [es EXCEPT !.entries = Append(es.entries, entry_info)]
    ELSE
    LET sound_abs_offset == head_offset + sound_rel_offset IN
    IF ~(CanRead(f, sound_abs_offset, 2) /\ CanRead(f, sound_abs_offset + 3, 1))
    THEN [es EXCEPT !.raised = TRUE]
    ELSE
    LET version == read_u16le(f, sound_abs_offset)
        subsounds_count == read_u8(f, sound_abs_offset + 3)
    IN
    IF version >= TableDrivenVersion /\ ~CanRead(f, sound_abs_offset + 44, 4)
    THEN [es EXCEPT !.raised = TRUE]
    ELSE
    LET subsound_start == IF version < TableDrivenVersion THEN SubsoundStart
                          ELSE read_u16le(f, sound_abs_offset + 44)
        subsound_size == IF version < TableDrivenVersion THEN SubsoundSize
                         ELSE read_u16le(f, sound_abs_offset + 46)
        st == ParseSubsounds(f, body_offset, k, sound_abs_offset + subsound_start,
                             subsound_size, 0, subsounds_count,
                             [raised |-> FALSE, subs |-> <<>>, files |-> es.files,
                              track_count |-> es.track_count])
    IN  IF st.raised
        THEN [es EXCEPT !.raised = TRUE, !.files = st.files]
        ELSE [raised |-> FALSE,
              entries |-> Append(es.entries,
                                 [entry_info EXCEPT !.has_version = TRUE,
                                                    !.version = version,
                                                    !.subsounds = st.subs]),
              files |-> st.files, track_count |-> st.track_count]

RECURSIVE ParseSoundEntries(_, _, _, _, _, _, _)
ParseSoundEntries(f, head_offset, body_offset, k, idx, sounds, es) ==
    IF es.raised \/ idx >= sounds THEN es
    ELSE ParseSoundEntries(f, head_offset, body_offset, k, idx + 1, sounds,
             ParseSoundEntry(f, head_offset, body_offset, k, idx, es))

\* [raised, chunk_info, files]: files are the audio files on disk afterwards,
\* written into folder kwb_<k>
parse_kwb2(f, head_offset, body_offset, k, files) ==
    IF ~CanRead(f, head_offset + 6, 2)
    THEN [raised |-> TRUE, chunk_info |-> <<>>, files |-> files]
    ELSE
    LET sounds == read_u16le(f, head_offset + 6)
        es == ParseSoundEntries(f, head_offset, body_offset, k, 0, sounds,
                                [raised |-> FALSE, entries |-> <<>>, files |-> files,
                                 track_count |-> 1])
    IN  [raised |-> es.raised,
         chunk_info |-> [type |-> "KWB2", sound_entries |-> es.entries],
         files |-> es.files]

----------------------------------------------------------------------------
(* KWB2 bank: build_kwb_header_and_body *)

\* entry.get("version", 32768)
DefaultVersion == 32768

\* hashlib.sha256(raw_data).digest(): a digest that tells any two streams apart
Digest(raw_data) == <<"sha256", Len(raw_data), raw_data>>

NoDataMap == <<>>

\* wav_path is read when it exists; a missing file stands for an empty stream
LoadWav(files, wav_path) ==
    IF wav_path \notin DOMAIN files THEN <<>>
    ELSE read_wav_data(files[wav_path]).data

\* DedupInsert without the lookup: every stream is appended
AppendAlways(body_data, data_map, raw_data) ==
    [body_data |-> body_data \o raw_data, data_map |-> data_map,
     offset |-> Len(body_data), size |-> Len(raw_data)]

\* Lines 105-117: the body blob and the deduplication map after one stream,
\* and the (offset, size) its descriptor gets
DedupInsert(body_data, data_map, raw_data) ==
    LET data_hash == Digest(raw_data) IN
    IF data_hash \in DOMAIN data_map
    THEN [body_data |-> body_data, data_map |-> data_map,
          offset |-> data_map[data_hash][1], size |-> data_map[data_hash][2]]
    ELSE [body_data |-> body_data \o raw_data,
          data_map |-> [h \in (DOMAIN data_map) \cup {data_hash} |->
                           IF h = data_hash THEN <<Len(body_data), Len(raw_data)>>
                           ELSE data_map[h]],
          offset |-> Len(body_data), size |-> Len(raw_data)]

\* Lines 119-133: one subsound record, padded to 0x48 bytes
SubsoundRecord(sub, current_stream_offset, current_stream_size) ==
    LET filled == PackLE(sub.sample_rate, 2) \o PackLE(sub.codec, 1)
                  \o PackLE(sub.channels, 1) \o PackLE(sub.block_size, 2)
                  \o Zeros(16 - 6)
                  \o PackLE(current_stream_offset, 4) \o PackLE(current_stream_size, 4)
    IN  filled \o Zeros(SubsoundSize - Len(filled))

\* BuildSubsounds with `continue` in place of the empty stream: a subsound
\* whose file is missing gets no record
RECURSIVE SkipMissingSubsounds(_, _, _, _)
SkipMissingSubsounds(subsounds, j, files, bs) ==
    IF j > Len(subsounds) THEN bs
    ELSE IF subsounds[j].filename \notin DOMAIN files
    THEN SkipMissingSubsounds(subsounds, j + 1, files, bs)
    ELSE LET d == DedupInsert(bs.body_data, bs.data_map,
                              read_wav_data(files[subsounds[j].filename]).data)
         IN  SkipMissingSubsounds(subsounds, j + 1, files,
                 [entry_buffer |-> bs.entry_buffer
                                   \o SubsoundRecord(subsounds[j], d.offset, d.size),
                  body_data |-> d.body_data, data_map |-> d.data_map])

\* for sub in subsounds, from j on: bs is [entry_buffer, body_data, data_map]
RECURSIVE BuildSubsounds(_, _, _, _)
BuildSubsounds(subsounds, j, files, bs) ==
    IF j > Len(subsounds) THEN bs
    ELSE LET d == DedupInsert(bs.body_data, bs.data_map,
                              LoadWav(files, subsounds[j].filename))
         IN  BuildSubsounds(subsounds, j + 1, files,
                 [entry_buffer |-> bs.entry_buffer
                                   \o SubsoundRecord(subsounds[j], d.offset, d.size),
                  body_data |-> d.body_data, data_map |-> d.data_map])

\* Lines 86-91: version, a zero byte, the subsound count, zeros up to 0x2C
SoundEntryHeader(entry) ==
    PackLE(IF entry.has_version THEN entry.version ELSE DefaultVersion, 2)
    \o <<0>> \o PackLE(Len(entry.subsounds), 1) \o Zeros(SubsoundStart - 4)

\* for entry in sound_entries, from e on:
\* st is [buffers, offsets, current_entry_offset, body_data, data_map]
RECURSIVE BuildEntries(_, _, _, _)
BuildEntries(sound_entries, e, files, st) ==
    IF e > Len(sound_entries) THEN st
    ELSE LET bs == BuildSubsounds(sound_entries[e].subsounds, 1, files,
                       [entry_buffer |-> SoundEntryHeader(sound_entries[e]),
                        body_data |-> st.body_data, data_map |-> st.data_map])
         IN  BuildEntries(sound_entries, e + 1, files,
                 [buffers |-> st.buffers \o bs.entry_buffer,
                  offsets |-> Append(st.offsets, st.current_entry_offset),
                  current_entry_offset |-> st.current_entry_offset + Len(bs.entry_buffer),
                  body_data |-> bs.body_data, data_map |-> bs.data_map])

RECURSIVE PackAll(_, _)
PackAll(values, width) ==
    IF values = <<>> THEN <<>>
    ELSE PackLE(Head(values), width) \o PackAll(Tail(values), width)

\* [header_blob, body_data]
build_kwb_header_and_body(chunk_layout, files) ==
    LET sound_entries == chunk_layout.sound_entries
        num_sounds == Len(sound_entries)
        st == BuildEntries(sound_entries, 1, files,
                  [buffers |-> <<>>, offsets |-> <<>>,
                   current_entry_offset |-> OffsetTableAt + num_sounds * 4,
                   body_data |-> <<>>, data_map |-> NoDataMap])
    IN  [header_blob |-> TagKWB2 \o <<0, 0>> \o PackLE(num_sounds, 2) \o Zeros(16)
                         \o PackAll(st.offsets, 4) \o st.buffers,
         body_data |-> st.body_data]

----------------------------------------------------------------------------
(* XWS container: repack's pieces *)

Alignment == 2048

\* align_file with pad = rem
PadByRemainder(f, alignment) == f \o Zeros(Len(f) % alignment)

\* the bytes of f after align_file(f, alignment)
align_file(f, alignment) ==
    LET rem == Len(f) % alignment
    IN  IF rem # 0 THEN f \o Zeros(alignment - rem) ELSE f

\* Lines 174-224: the fixed header, up to the slot table
XwsHeader(total_chunks) ==
    TagXWSF \o <<0, 0, 0, 0>> \o <<0>> \o <<0>> \o <<1, 1>>
    \o PackLE(32, 4) \o PackLE(0, 4) \o PackLE(total_chunks, 4)
    \o PackLE(total_chunks, 4) \o PackLE(0, 4)
    \o PackLE(40, 4) \o PackLE(0, 4)

----------------------------------------------------------------------------
(* parse_xws, one loop iteration per step.  The first pass reads xws and   *)
(* leaves its audio files in disk and its manifest in layout; the second   *)
(* pass reads the rebuilt container and leaves them in disk2 and layout2.  *)

KWB2Magic == 1264009778

Src == IF pass = 1 THEN xws ELSE out

Files == IF pass = 1 THEN disk ELSE disk2

\* NextSlot with every slot taken for the first of a pair
AlwaysPair(idx, is_kwb2) == idx + 2

\* Lines 117-147: the slot index after a slot was looked at
NextSlot(idx, is_kwb2) == IF is_kwb2 THEN idx + 2 ELSE idx + 1

\* Lines 99-113
ParseXwsOpen ==
    /\ pc \in {"start", "repacked"}
    /\ pass' = IF pc = "start" THEN 1 ELSE 2
    /\ LET f == IF pc = "start" THEN xws ELSE out
           magic == read_id32be(f, 0)
       IN  IF magic \notin {TagXWSF, TagTdpa}
           THEN /\ pc' = "rejected"
                /\ UNCHANGED <<chunks, table1_offset>>
           ELSE IF ~(CanRead(f, 24, 4) /\ CanRead(f, 32, 4))
           THEN /\ pc' = "crashed"
                /\ UNCHANGED <<chunks, table1_offset>>
           ELSE /\ pc' = "scan"
                /\ chunks' = read_u32le(f, 24)
                /\ table1_offset' = read_u32le(f, 32)
    /\ i' = 0
    /\ kwb_index' = 0
    /\ acc' = <<>>
    /\ UNCHANGED <<xws, disk, layout, out, k_idx, table1_start, table1_offsets,
                   disk2, layout2, edits, wav_args, wav_ret>>

SlotReadable == CanRead(Src, table1_offset + i * 4, 4)

HeadOffset == read_u32le(Src, table1_offset + i * 4)

\* Lines 116-119: a slot holding zero
ScanSkipZero ==
    /\ pc = "scan" /\ i < chunks
    /\ SlotReadable /\ HeadOffset = 0
    /\ i' = NextSlot(i, FALSE)
    /\ UNCHANGED <<pc, xws, disk, layout, out, pass, chunks, table1_offset,
                   kwb_index, acc, k_idx, table1_start, table1_offsets, disk2,
                   layout2, edits, wav_args, wav_ret>>

\* Lines 122-125, 145-147: a chunk of another type
ScanSkipOther ==
    /\ pc = "scan" /\ i < chunks
    /\ SlotReadable /\ HeadOffset # 0
    /\ CanRead(Src, HeadOffset, 4)
    /\ read_u32be(Src, HeadOffset) # KWB2Magic
    /\ i' = NextSlot(i, FALSE)
    /\ UNCHANGED <<pc, xws, disk, layout, out, pass, chunks, table1_offset,
                   kwb_index, acc, k_idx, table1_start, table1_offsets, disk2,
                   layout2, edits, wav_args, wav_ret>>

\* Lines 125-144: a KWB2 header chunk and the body chunk of the next slot
ScanKwb2 ==
    /\ pc = "scan" /\ i < chunks
    /\ SlotReadable /\ HeadOffset # 0
    /\ CanRead(Src, HeadOffset, 4)
    /\ read_u32be(Src, HeadOffset) = KWB2Magic
    /\ IF ~CanRead(Src, table1_offset + (i + 1) * 4, 4)
       THEN /\ pc' = "crashed"
            /\ kwb_index' = kwb_index + 1
            /\ UNCHANGED <<i, acc, disk, disk2>>
       ELSE LET body_offset == read_u32le(Src, table1_offset + (i + 1) * 4)
                r == parse_kwb2(Src, HeadOffset, body_offset, kwb_index + 1, Files)
            IN  /\ kwb_index' = kwb_index + 1
                /\ disk' = IF pass = 1 THEN r.files ELSE disk
                /\ disk2' = IF pass = 2 THEN r.files ELSE disk2
                /\ IF r.raised
                   THEN pc' = "crashed" /\ UNCHANGED <<i, acc>>
                   ELSE /\ pc' = pc
                        /\ acc' = Append(acc, [type |-> r.chunk_info.type,
                                               sound_entries |-> r.chunk_info.sound_entries,
                                               index |-> kwb_index + 1])
                        /\ i' = NextSlot(i, TRUE)
    /\ UNCHANGED <<xws, layout, out, pass, chunks, table1_offset, k_idx,
                   table1_start, table1_offsets, layout2, edits, wav_args, wav_ret>>

\* struct.unpack of a short read: the slot or the chunk's tag lies past the end
ScanRaise ==
    /\ pc = "scan" /\ i < chunks
    /\ \/ ~SlotReadable
       \/ SlotReadable /\ HeadOffset # 0 /\ ~CanRead(Src, HeadOffset, 4)
    /\ pc' = "crashed"
    /\ UNCHANGED <<xws, disk, layout, out, pass, chunks, table1_offset, i,
                   kwb_index, acc, k_idx, table1_start, table1_offsets, disk2,
                   layout2, edits, wav_args, wav_ret>>

\* Lines 149-151: layout.json is written when the loop has ended
ScanFinish ==
    /\ pc = "scan" /\ i >= chunks
    /\ pc' = IF pass = 1 THEN "extracted" ELSE "done"
    /\ layout' = IF pass = 1 THEN acc ELSE layout
    /\ layout2' = IF pass = 2 THEN acc ELSE layout2
    /\ UNCHANGED <<xws, disk, out, pass, chunks, table1_offset, i, kwb_index,
                   acc, k_idx, table1_start, table1_offsets, disk2, edits,
                   wav_args, wav_ret>>

----------------------------------------------------------------------------
(* repack, one bank per step *)

\* Lines 166-236: header, placeholder slot table, first alignment
RepackOpen ==
    /\ pc = "extracted"
    /\ LET total_chunks == Len(layout) * 2
           header == XwsHeader(total_chunks)
       IN  /\ table1_start' = Len(header)
           /\ out' = align_file(header \o Zeros(4 * total_chunks), Alignment)
    /\ table1_offsets' = <<>>
    /\ k_idx' = 0
    /\ pc' = "repack"
    /\ UNCHANGED <<xws, disk, layout, pass, chunks, table1_offset, i, kwb_index,
                   acc, disk2, layout2, edits, wav_args, wav_ret>>

\* Lines 238-257: one bank's header chunk and body chunk
RepackBank ==
    /\ pc = "repack" /\ k_idx < Len(layout)
    /\ LET b == build_kwb_header_and_body(layout[k_idx + 1], disk)
           header_pos == Len(out)
           f1 == align_file(out \o b.header_blob, Alignment)
           body_pos == Len(f1)
           f2 == f1 \o b.body_data
       IN  /\ table1_offsets' = table1_offsets \o <<header_pos, body_pos>>
           /\ out' = IF k_idx < Len(layout) - 1 THEN align_file(f2, Alignment) ELSE f2
    /\ k_idx' = k_idx + 1
    /\ UNCHANGED <<pc, xws, disk, layout, pass, chunks, table1_offset, i,
                   kwb_index, acc, table1_start, disk2, layout2, edits,
                   wav_args, wav_ret>>

\* Lines 259-272: last alignment, file size and slot table patched in
RepackFinish ==
    /\ pc = "repack" /\ k_idx >= Len(layout)
    /\ LET f == align_file(out, Alignment)
           file_size == Len(f)
       IN  out' = WriteAt(WriteAt(f, 16, PackLE(file_size, 4)),
                          table1_start, PackAll(table1_offsets, 4))
    /\ pc' = "repacked"
    /\ UNCHANGED <<xws, disk, layout, pass, chunks, table1_offset, i, kwb_index,
                   acc, k_idx, table1_start, table1_offsets, disk2, layout2,
                   edits, wav_args, wav_ret>>

----------------------------------------------------------------------------
(* Input containers, in the layout parse_xws and parse_kwb2 read.          *)
(* A bank is a sequence of sound entries; an entry is                      *)
(*   [zero, version, subs]: zero says that the bank's offset table holds   *)
(*   0 for it (no entry record); subs is a sequence of                     *)
(*   [sample_rate, codec, channels, block_size, data].                     *)

\* start and record size a table-driven entry (version >= 0xc000) declares
TableDriven == [start |-> 48, size |-> 80]

EntryStart(version) ==
    IF version < TableDrivenVersion THEN SubsoundStart ELSE TableDriven.start

EntryRecSize(version) ==
    IF version < TableDrivenVersion THEN SubsoundSize ELSE TableDriven.size

\* one subsound record of rec_size bytes whose stream lies at stream_offset
InputSubsound(sub, stream_offset, rec_size) ==
    LET filled == PackLE(sub.sample_rate, 2) \o PackLE(sub.codec, 1)
                  \o PackLE(sub.channels, 1) \o PackLE(sub.block_size, 2)
                  \o Zeros(10)
                  \o PackLE(stream_offset, 4) \o PackLE(Len(sub.data), 4)
    IN  filled \o Zeros(rec_size - Len(filled))

\* records and streams of subs[j..]: [records, body]
RECURSIVE InputSubsounds(_, _, _, _)
InputSubsounds(subs, j, rec_size, st) ==
    IF j > Len(subs) THEN st
    ELSE InputSubsounds(subs, j + 1, rec_size,
             [records |-> st.records
                          \o InputSubsound(subs[j], Len(st.body), rec_size),
              body |-> st.body \o subs[j].data])

InputEntryHeader(entry) ==
    LET fixed == PackLE(entry.version, 2) \o <<0>> \o PackLE(Len(entry.subs), 1)
                 \o Zeros(SubsoundStart - 4)
    IN  IF entry.version < TableDrivenVersion THEN fixed
        ELSE fixed \o PackLE(TableDriven.start, 2) \o PackLE(TableDriven.size, 2)
                   \o Zeros(TableDriven.start - SubsoundStart - 4)

\* entries[e..]: st is [table, entries, body]; offsets count from the header
RECURSIVE InputEntries(_, _, _)
InputEntries(bank, e, st) ==
    IF e > Len(bank) THEN st
    ELSE IF bank[e].zero
    THEN InputEntries(bank, e + 1, [st EXCEPT !.table = @ \o PackLE(0, 4)])
    ELSE LET at == OffsetTableAt + 4 * Len(bank) + Len(st.entries)
             r == InputSubsounds(bank[e].subs, 1, EntryRecSize(bank[e].version),
                                 [records |-> <<>>, body |-> st.body])
         IN  InputEntries(bank, e + 1,
                 [table |-> st.table \o PackLE(at, 4),
                  entries |-> st.entries \o InputEntryHeader(bank[e]) \o r.records,
                  body |-> r.body])

\* [header, body] chunks of a bank
InputBank(bank) ==
    LET st == InputEntries(bank, 1, [table |-> <<>>, entries |-> <<>>, body |-> <<>>])
    IN  [header |-> TagKWB2 \o <<0, 0>> \o PackLE(Len(bank), 2) \o Zeros(16)
                    \o st.table \o st.entries,
         body |-> st.body]

\* a chunk of a type parse_xws does not interpret
OtherChunk == <<75, 79, 86, 83, 1, 2, 3, 4>>

\* The slots an item takes: "zero" one empty slot, "other" one slot of another
\* chunk type, "kwb" two slots (header, body), "lone" a KWB2 header alone.
ItemSlots(item) == IF item.kind = "kwb" THEN 2 ELSE 1

RECURSIVE CountSlots(_)
CountSlots(items) ==
    IF items = <<>> THEN 0 ELSE ItemSlots(Head(items)) + CountSlots(Tail(items))

\* items[n..]: st is [slots, data], base the file position of data's start
RECURSIVE InputItems(_, _, _, _)
InputItems(items, n, base, st) ==
    IF n > Len(items) THEN st
    ELSE LET here == base + Len(st.data)
             it == items[n]
             next ==
                IF it.kind = "zero" THEN [st EXCEPT !.slots = Append(@, 0)]
                ELSE IF it.kind = "other"
                THEN [slots |-> Append(st.slots, here), data |-> st.data \o OtherChunk]
                ELSE LET b == InputBank(it.bank)
                     IN  IF it.kind = "lone"
                         THEN [slots |-> Append(st.slots, here),
                               data |-> st.data \o b.header]
                         ELSE [slots |-> st.slots \o <<here, here + Len(b.header)>>,
                               data |-> st.data \o b.header \o b.body]
         IN  InputItems(items, n + 1, base, next)

\* the container file: header, slot table at 0x28, then the chunks
InputContainer(magic, items) ==
    LET nslots == CountSlots(items)
        head == magic \o Zeros(20) \o PackLE(nslots, 4) \o PackLE(0, 4)
                \o PackLE(40, 4) \o PackLE(0, 4)
        st == InputItems(items, 1, 40 + 4 * nslots, [slots |-> <<>>, data |-> <<>>])
    IN  head \o PackAll(st.slots, 4) \o st.data

----------------------------------------------------------------------------
(* Extraction, rebuild and extraction of the rebuilt container *)

RECURSIVE SeqsUpTo(_, _)
SeqsUpTo(S, n) ==
    IF n = 0 THEN {<<>>}
    ELSE LET shorter == SeqsUpTo(S, n - 1)
         IN  shorter \cup {Append(s, x) : s \in {t \in shorter : Len(t) = n - 1}, x \in S}

Sub(rate, codec, ch, block, data) ==
    [sample_rate |-> rate, codec |-> codec, channels |-> ch,
     block_size |-> block, data |-> data]

SubA  == Sub(22050, CodecMSADPCM, 1, 32, <<7, 100>>)
\* the stream of SubA under other parameters
SubA2 == Sub(48, CodecMSADPCM, 2, 512, <<7, 100>>)
SubB  == Sub(48, CodecMSADPCM, 2, 512, <<100>>)
\* a codec the tools do not extract
SubC  == Sub(22050, 17, 1, 32, <<9>>)

ZeroEntry == [zero |-> TRUE, version |-> 0, subs |-> <<>>]

Entry(version, subs) == [zero |-> FALSE, version |-> version, subs |-> subs]

EntryShapes ==
    { ZeroEntry,
      Entry(32768, <<>>),
      Entry(32768, <<SubA>>),
      Entry(32768, <<SubB, SubA, SubA2>>),
      Entry(32768, <<SubA, SubC, SubB>>),
      Entry(49152, <<SubA>>),
      Entry(49152, <<SubB, SubA>>) }

InputBanks == SeqsUpTo(EntryShapes, MaxEntries)

KwbItem(bank) == [kind |-> "kwb", bank |-> bank]

Init ==
    /\ pc = "start"
    /\ \E bank \in InputBanks : xws = InputContainer(TagXWSF, <<KwbItem(bank)>>)
    /\ disk = NoFiles /\ layout = <<>> /\ out = <<>> /\ pass = 1
    /\ chunks = 0 /\ table1_offset = 0 /\ i = 0 /\ kwb_index = 0 /\ acc = <<>>
    /\ k_idx = 0 /\ table1_start = 0 /\ table1_offsets = <<>>
    /\ disk2 = NoFiles /\ layout2 = <<>>
    /\ edits = 0
    /\ wav_args = <<>> /\ wav_ret = <<>>

Next ==
    \/ ParseXwsOpen
    \/ ScanKwb2
    \/ ScanFinish
    \/ RepackOpen
    \/ RepackBank
    \/ RepackFinish

Spec == Init /\ [][Next]_vars

----------------------------------------------------------------------------
(* parse_xws on its own, over slot tables of every shape *)

SmallBank == <<Entry(32768, <<SubB>>)>>

Items ==
    { [kind |-> "zero", bank |-> <<>>],
      [kind |-> "other", bank |-> <<>>],
      [kind |-> "kwb", bank |-> SmallBank],
      [kind |-> "lone", bank |-> <<>>] }

\* a copy of the container cut short: whole, inside the header, after the table
CutContainer(f, cut) ==
    IF cut = "header" THEN SubSeq(f, 1, 16)
    ELSE IF cut = "table" THEN SubSeq(f, 1, 40 + 4 * read_u32le(f, 24))
    ELSE f

InitScan ==
    /\ pc = "start"
    /\ \E magic \in {TagXWSF, TagTdpa, TagRIFF}, items \in SeqsUpTo(Items, MaxItems),
          cut \in {"whole", "header", "table"} :
          xws = CutContainer(InputContainer(magic, items), cut)
    /\ disk = NoFiles /\ layout = <<>> /\ out = <<>> /\ pass = 1
    /\ chunks = 0 /\ table1_offset = 0 /\ i = 0 /\ kwb_index = 0 /\ acc = <<>>
    /\ k_idx = 0 /\ table1_start = 0 /\ table1_offsets = <<>>
    /\ disk2 = NoFiles /\ layout2 = <<>>
    /\ edits = 0
    /\ wav_args = <<>> /\ wav_ret = <<>>

NextScan ==
    \/ ParseXwsOpen
    \/ ScanSkipZero
    \/ ScanSkipOther
    \/ ScanKwb2
    \/ ScanRaise
    \/ ScanFinish

SpecScan == InitScan /\ [][NextScan]_vars

----------------------------------------------------------------------------
(* repack on its own, over manifests whose audio files are large, shared,  *)
(* damaged or missing                                                      *)

Fill(n, byte) == [z \in 1..n |-> byte]

WavOf(data) == write_wav_msadpcm(data, 1, 22050, 32).bytes

\* the audio files on disk; WavPath(9, 9) is on no disk
RepackFiles ==
    (WavPath(1, 1) :> WavOf(<<7>>))
    @@ (WavPath(1, 2) :> WavOf(Fill(Alignment, 1)))
    @@ (WavPath(1, 3) :> WavOf(Fill(Alignment + 1, 2)))
    @@ (WavPath(1, 4) :> WavOf(Fill(Alignment + 1, 2)))
    @@ (WavPath(1, 5) :> SubSeq(WavOf(<<7, 7>>), 1, 30))

MissingWav == WavPath(9, 9)

MSub(name) ==
    [filename |-> name, sample_rate |-> 22050, channels |-> 1, block_size |-> 32,
     original_stream_size |-> 0, codec |-> CodecMSADPCM]

MEntry(idx, names) ==
    [entry_index |-> idx, offset_loc_rel |-> OffsetTableAt + idx * 4,
     has_version |-> TRUE, version |-> DefaultVersion,
     subsounds |-> [n \in 1..Len(names) |-> MSub(names[n])]]

MPlaceholder(idx) ==
    [entry_index |-> idx, offset_loc_rel |-> OffsetTableAt + idx * 4,
     has_version |-> FALSE, version |-> 0, subsounds |-> <<>>]

\* the sound_entries lists the banks of a manifest are drawn from
ManifestBanks ==
    { <<>>,
      << MEntry(0, <<WavPath(1, 1)>>) >>,
      << MEntry(0, <<MissingWav, WavPath(1, 2)>>) >>,
      << MEntry(0, <<WavPath(1, 3), WavPath(1, 4)>>), MEntry(1, <<WavPath(1, 3)>>) >>,
      << MEntry(0, [n \in 1..28 |-> MissingWav]) >>,
      << MPlaceholder(0),
         MEntry(1, <<WavPath(1, 1), WavPath(1, 5), MissingWav, WavPath(1, 1)>>) >> }

Manifest(banks) ==
    [n \in 1..Len(banks) |->
        [type |-> "KWB2", sound_entries |-> banks[n], index |-> n]]

InitRepack ==
    /\ pc = "extracted"
    /\ \E banks \in SeqsUpTo(ManifestBanks, MaxBanks) : layout = Manifest(banks)
    /\ disk = RepackFiles
    /\ xws = <<>> /\ out = <<>> /\ pass = 1
    /\ chunks = 0 /\ table1_offset = 0 /\ i = 0 /\ kwb_index = 0 /\ acc = <<>>
    /\ k_idx = 0 /\ table1_start = 0 /\ table1_offsets = <<>>
    /\ disk2 = NoFiles /\ layout2 = <<>>
    /\ edits = 0
    /\ wav_args = <<>> /\ wav_ret = <<>>

NextRepack ==
    \/ RepackOpen
    \/ RepackBank
    \/ RepackFinish

SpecRepack == InitRepack /\ [][NextRepack]_vars

----------------------------------------------------------------------------
(* What the claims read off a state *)

\* the input bank of Spec, read from the bytes of xws (slots 0 and 1)
InHead == read_u32le(xws, 40)
InBody == read_u32le(xws, 44)
InSounds == read_u16le(xws, InHead + 6)
InEntryRel(e) == read_u32le(xws, InHead + OffsetTableAt + 4 * e)
InEntryAt(e) == InHead + InEntryRel(e)
InVersion(e) == read_u16le(xws, InEntryAt(e))
InCount(e) == IF InEntryRel(e) = 0 THEN 0 ELSE read_u8(xws, InEntryAt(e) + 3)
InSubAt(e, j) ==
    IF InVersion(e) < TableDrivenVersion
    THEN InEntryAt(e) + SubsoundStart + j * SubsoundSize
    ELSE InEntryAt(e) + read_u16le(xws, InEntryAt(e) + 44)
                      + j * read_u16le(xws, InEntryAt(e) + 46)
InCodec(e, j) == read_u8(xws, InSubAt(e, j) + 2)
InStream(e, j) ==
    Slice(xws, InBody + read_u32le(xws, InSubAt(e, j) + 16),
          read_u32le(xws, InSubAt(e, j) + 20))

InEntries == 0..(InSounds - 1)
InSubs(e) == 0..(InCount(e) - 1)

AllMsadpcm == \A e \in InEntries : \A j \in InSubs(e) : InCodec(e, j) = CodecMSADPCM

AllFixedLayout ==
    \A e \in InEntries : InEntryRel(e) # 0 => InVersion(e) < TableDrivenVersion

\* bank k (from 1) of the container being written: where its chunks start
OutHead(k) == table1_offsets[2 * k - 1]
OutBody(k) == table1_offsets[2 * k]
OutEntryAt(k, e) == OutHead(k) + read_u32le(out, OutHead(k) + OffsetTableAt + 4 * (e - 1))
OutSubAt(k, e, j) == OutEntryAt(k, e) + SubsoundStart + (j - 1) * SubsoundSize
\* the (offset, size) written into a subsound descriptor
OutView(k, e, j) ==
    <<read_u32le(out, OutSubAt(k, e, j) + 16), read_u32le(out, OutSubAt(k, e, j) + 20)>>
\* where the body chunk of bank k stops: at the next chunk or at the end of file
OutBodyEnd(k) == IF k < k_idx THEN OutHead(k + 1) ELSE Len(out)

\* the subsounds of a manifest bank in manifest order, as <<entry, subsound>>
RECURSIVE FlatSubs(_, _)
FlatSubs(sound_entries, e) ==
    IF e > Len(sound_entries) THEN <<>>
    ELSE [j \in 1..Len(sound_entries[e].subsounds) |-> <<e, j>>]
         \o FlatSubs(sound_entries, e + 1)

SubOf(k, at) == layout[k].sound_entries[at[1]].subsounds[at[2]]

\* the stream rebuild reads for a subsound
StreamOf(k, at) == LoadWav(disk, SubOf(k, at).filename)

\* the distinct streams among S[1..n], each once, in order of first occurrence
RECURSIVE DistinctUpTo(_, _)
DistinctUpTo(S, n) ==
    IF n = 0 THEN <<>>
    ELSE IF \E m \in 1..(n - 1) : S[m] = S[n] THEN DistinctUpTo(S, n - 1)
    ELSE DistinctUpTo(S, n - 1) \o S[n]

AllZero(f, from, to) == \A p \in (from + 1)..to : f[p] = 0

Built == IF pc \in {"repack", "repacked"} THEN 1..k_idx ELSE {}

----------------------------------------------------------------------------
(* Claims about rebuild *)

\* C2: in every bank written by build_kwb_header_and_body, each distinct stream
\* is in the body chunk exactly once (the body is the distinct streams of that
\* bank alone in order of first occurrence, then only alignment padding), every
\* descriptor views its own stream, and subsounds with byte-identical streams
\* get the same (offset, length).
C2_DedupOncePerBank ==
    \A k \in Built :
        LET flat == FlatSubs(layout[k].sound_entries, 1)
            S == [n \in 1..Len(flat) |-> StreamOf(k, flat[n])]
            expected == DistinctUpTo(S, Len(S))
            stop == OutBody(k) + Len(expected)
        IN  /\ Slice(out, OutBody(k), Len(expected)) = expected
            /\ OutBodyEnd(k) - stop \in 0..(Alignment - 1)
            /\ AllZero(out, stop, OutBodyEnd(k))
            /\ \A n \in 1..Len(flat) :
                  LET v == OutView(k, flat[n][1], flat[n][2])
                  IN  /\ v[2] = Len(S[n])
                      /\ Slice(out, OutBody(k) + v[1], v[2]) = S[n]
            /\ \A n, m \in 1..Len(flat) :
                  S[n] = S[m] =>
                      OutView(k, flat[n][1], flat[n][2]) = OutView(k, flat[m][1], flat[m][2])

\* a bank with two subsounds of one non-empty stream, and a second bank that
\* holds the same stream again
C2_Witness ==
    /\ pc = "repacked" /\ k_idx = 2
    /\ Len(layout[1].sound_entries) > 0 /\ Len(layout[2].sound_entries) > 0
    /\ Len(layout[1].sound_entries[1].subsounds) >= 2
    /\ Len(layout[2].sound_entries[1].subsounds) >= 1
    /\ \E a, b \in 1..2 :
          /\ a # b
          /\ StreamOf(1, <<1, a>>) = StreamOf(1, <<1, b>>)
          /\ Len(StreamOf(1, <<1, a>>)) > Alignment
          /\ OutView(1, 1, a) = OutView(1, 1, b)
    /\ StreamOf(2, <<1, 1>>) = StreamOf(1, <<1, 1>>)
    /\ OutView(2, 1, 1)[2] > Alignment

\* C5: every chunk position repack records, and every slot of the finished
\* container's slot table, is a multiple of 0x800.
C5_ChunksAligned ==
    /\ \A n \in 1..Len(table1_offsets) : table1_offsets[n] % Alignment = 0
    /\ pc = "repacked" =>
          \A n \in 0..(read_u32le(out, 24) - 1) :
              read_u32le(out, read_u32le(out, 32) + 4 * n) % Alignment = 0

\* a finished container of MaxBanks banks with a header chunk longer than
\* 0x800, an empty body chunk and a body chunk of exactly 0x800 bytes
C5_Witness ==
    /\ pc = "repacked" /\ read_u32le(out, 24) = 2 * MaxBanks
    /\ \E k \in 1..k_idx : OutBody(k) - OutHead(k) > Alignment
    /\ \E k \in 1..k_idx : OutBodyEnd(k) = OutBody(k)
    /\ \E k \in 1..k_idx : OutBodyEnd(k) - OutBody(k) = Alignment
                           /\ out[OutBodyEnd(k)] # 0

IsMissing(k, at) == SubOf(k, at).filename \notin DOMAIN disk

\* C8: whatever audio files a manifest names that are not on disk, rebuild
\* writes the whole container: every bank keeps its header chunk and sound
\* count, every subsound keeps its descriptor, the descriptor of a missing file
\* has stream length 0, the body chunk holds the streams of the files that
\* exist and nothing else, the subsounds after a missing file view their own
\* streams, and the finished container records every bank of the manifest.
C8_MissingFileTolerated ==
    /\ \A k \in Built :
          LET entries == layout[k].sound_entries
              flat == FlatSubs(entries, 1)
              present == SelectSeq(flat, LAMBDA at : ~IsMissing(k, at))
              P == [n \in 1..Len(present) |-> StreamOf(k, present[n])]
              kept == DistinctUpTo(P, Len(P))
          IN  /\ Slice(out, OutHead(k), 4) = TagKWB2
              /\ read_u16le(out, OutHead(k) + 6) = Len(entries)
              /\ \A e \in 1..Len(entries) :
                    read_u8(out, OutEntryAt(k, e) + 3) = Len(entries[e].subsounds)
              /\ \A n \in 1..Len(flat) :
                    LET v == OutView(k, flat[n][1], flat[n][2])
                    IN  IF IsMissing(k, flat[n]) THEN v[2] = 0
                        ELSE Slice(out, OutBody(k) + v[1], v[2]) = StreamOf(k, flat[n])
              /\ Slice(out, OutBody(k), Len(kept)) = kept
              /\ AllZero(out, OutBody(k) + Len(kept), OutBodyEnd(k))
    /\ pc = "repack" => k_idx <= Len(layout)
    /\ pc = "repacked" =>
          /\ k_idx = Len(layout)
          /\ read_u32le(out, 24) = 2 * Len(layout)
          /\ read_u32le(out, 16) = Len(out)
          /\ \A n \in 1..Len(table1_offsets) :
                read_u32le(out, table1_start + 4 * (n - 1)) = table1_offsets[n]

\* a finished container whose first bank names a missing file before a file
\* that exists, followed by another bank with sound entries
C8_Witness ==
    /\ pc = "repacked" /\ k_idx = 2
    /\ Len(layout[1].sound_entries) > 0
    /\ Len(layout[1].sound_entries[1].subsounds) >= 2
    /\ IsMissing(1, <<1, 1>>)
    /\ ~IsMissing(1, <<1, 2>>)
    /\ OutView(1, 1, 1)[2] = 0
    /\ OutView(1, 1, 2)[2] = Len(StreamOf(1, <<1, 2>>))
    /\ Len(StreamOf(1, <<1, 2>>)) > 0
    /\ Len(layout[2].sound_entries) > 0

----------------------------------------------------------------------------
(* Claims about the slot scan of parse_xws *)

\* C6: the slot index starts at 0; a step of the scan that looks at a zero slot
\* or at a chunk that is not KWB2 moves it by one and leaves the manifest alone;
\* a step that looks at a KWB2 chunk moves it by two and appends that bank to
\* the manifest with the next index 1, 2, 3, ...; the manifest written at the
\* end is the banks found, in scan order.
C6_ScanAdvances ==
    [][LET is_kwb2 == HeadOffset # 0 /\ read_u32be(Src, HeadOffset) = KWB2Magic
       IN  /\ (pc = "start" /\ pc' = "scan") => (i' = 0 /\ acc' = <<>>)
           /\ (pc = "scan" /\ pc' = "scan") =>
                 /\ i < chunks
                 /\ IF is_kwb2
                    THEN /\ i' = i + 2
                         /\ Len(acc') = Len(acc) + 1
                         /\ SubSeq(acc', 1, Len(acc)) = acc
                         /\ acc'[Len(acc')].index = Len(acc')
                         /\ acc'[Len(acc')].type = "KWB2"
                    ELSE /\ i' = i + 1
                         /\ acc' = acc
           /\ (pc = "scan" /\ pc' = "extracted") =>
                 /\ i >= chunks
                 /\ layout' = acc
                 /\ \A n \in 1..Len(acc) : acc[n].index = n
      ]_vars

\* a finished scan of a zero slot, a chunk of another type and then a bank
C6_Witness ==
    /\ pc = "extracted" /\ chunks = 4 /\ i = 4
    /\ read_u32le(xws, table1_offset) = 0
    /\ read_u32le(xws, table1_offset + 4) # 0
    /\ read_u32be(xws, read_u32le(xws, table1_offset + 4)) # KWB2Magic
    /\ read_u32be(xws, read_u32le(xws, table1_offset + 8)) = KWB2Magic
    /\ Len(layout) = 1 /\ layout[1].index = 1

----------------------------------------------------------------------------
(* Claims about extraction, rebuild and extraction of the rebuilt container *)

\* C1 (as claimed): when every subsound of the bank has codec 0x10, parse_kwb2
\* of the rebuilt bank completes and yields the sound count of the input and,
\* for every sound entry in order, each subsound's sample rate, codec, channel
\* count, block size and audio payload.
C1_RoundTrip ==
    (pass = 2 /\ pc \in {"done", "crashed"} /\ AllMsadpcm) =>
        /\ pc = "done"
        /\ Len(layout2) = 1
        /\ Len(layout2[1].sound_entries) = InSounds
        /\ \A e \in InEntries :
              LET subs == layout2[1].sound_entries[e + 1].subsounds
              IN  /\ Len(subs) = InCount(e)
                  /\ \A j \in InSubs(e) :
                        /\ subs[j + 1].sample_rate = read_u16le(xws, InSubAt(e, j))
                        /\ subs[j + 1].codec = InCodec(e, j)
                        /\ subs[j + 1].channels = read_u8(xws, InSubAt(e, j) + 3)
                        /\ subs[j + 1].block_size = read_u16le(xws, InSubAt(e, j) + 4)
                        /\ subs[j + 1].filename \in DOMAIN disk2
                        /\ read_wav_data(disk2[subs[j + 1].filename]).data = InStream(e, j)

\* C3 (as claimed): a sound entry with a zero offset yields no audio file and
\* no subsound in the manifest, extraction and rebuild complete, and the
\* rebuilt bank's offset table holds zero for that entry again.
C3_ZeroOffsetRoundTrip ==
    /\ pass = 1 => pc # "crashed"
    /\ pc \in {"extracted", "repack", "repacked"} =>
          \A e \in InEntries :
              InEntryRel(e) = 0 => layout[1].sound_entries[e + 1].subsounds = <<>>
    /\ pc = "repacked" =>
          \A e \in InEntries :
              InEntryRel(e) = 0 =>
                  read_u32le(out, OutHead(1) + OffsetTableAt + 4 * e) = 0

\* C4 (as claimed): a subsound whose codec is not 0x10 keeps a descriptor: the
\* manifest's sound entry and the rebuilt sound entry have the subsound count
\* of the input and the descriptor's codec, and no audio file is written for it.
C4_OtherCodecRetained ==
    /\ pc \in {"extracted", "repack", "repacked"} =>
          \A e \in InEntries :
              LET subs == layout[1].sound_entries[e + 1].subsounds
              IN  /\ Len(subs) = InCount(e)
                  /\ \A j \in InSubs(e) :
                        /\ subs[j + 1].codec = InCodec(e, j)
                        /\ InCodec(e, j) # CodecMSADPCM =>
                              subs[j + 1].filename \notin DOMAIN disk
    /\ pc = "repacked" =>
          \A e \in InEntries :
              InEntryRel(e) # 0 => read_u8(out, OutEntryAt(1, e + 1) + 3) = InCount(e)

\* C10 (as claimed): the finished container has slot count 2N, its slot table
\* holds each bank's header position and body position in manifest order with
\* header < body <= next header and no zero left, its size field is the file
\* length, and parse_xws of it finds exactly the N banks in the same order.
C10_RebuiltSlotTable ==
    /\ pc = "repacked" =>
          LET N == Len(layout)
              slot(n) == read_u32le(out, read_u32le(out, 32) + 4 * n)
          IN  /\ read_u32le(out, 24) = 2 * N
              /\ read_u32le(out, 16) = Len(out)
              /\ Len(table1_offsets) = 2 * N
              /\ \A n \in 0..(2 * N - 1) : slot(n) = table1_offsets[n + 1] /\ slot(n) # 0
              /\ \A k \in 1..N :
                    /\ slot(2 * k - 2) < slot(2 * k - 1)
                    /\ Slice(out, slot(2 * k - 2), 4) = TagKWB2
                    /\ k < N => slot(2 * k - 1) <= slot(2 * k)
    /\ (pass = 2 /\ pc \in {"done", "crashed", "rejected"}) =>
          /\ pc = "done"
          /\ Len(layout2) = Len(layout)
          /\ \A n \in 1..Len(layout2) : layout2[n].index = n

----------------------------------------------------------------------------
(* The audio-container codec on its own: one file written by               *)
(* write_wav_msadpcm, possibly damaged afterwards, read by read_wav_data.  *)

DataBytes == {7, 100}

Streams == SeqsUpTo(DataBytes, MaxData)

WavArgs ==
    [data : Streams, channels : {0, 1, 2}, sample_rate : {48, 22050},
     block_align : {6, 32, 512, 40000}]

InitWav ==
    /\ pc = "wav_start"
    /\ wav_args \in WavArgs
    /\ wav_ret = [raised |-> FALSE, data |-> <<>>]
    /\ disk = NoFiles
    /\ edits = 0
    /\ xws = <<>> /\ layout = <<>> /\ out = <<>> /\ pass = 1
    /\ chunks = 0 /\ table1_offset = 0 /\ i = 0 /\ kwb_index = 0 /\ acc = <<>>
    /\ k_idx = 0 /\ table1_start = 0 /\ table1_offsets = <<>>
    /\ disk2 = NoFiles /\ layout2 = <<>>

WavWrite ==
    /\ pc = "wav_start"
    /\ LET w == write_wav_msadpcm(wav_args.data, wav_args.channels,
                                  wav_args.sample_rate, wav_args.block_align)
       IN  /\ pc' = IF w.raised THEN "wav_raised" ELSE "wav_written"
           /\ disk' = IF w.created THEN (WavPath(0, 1) :> w.bytes) ELSE disk
    /\ UNCHANGED <<xws, layout, out, pass, chunks, table1_offset, i, kwb_index,
                   acc, k_idx, table1_start, table1_offsets, disk2, layout2,
                   edits, wav_args, wav_ret>>

\* the file loses its tail (a copy cut short)
WavTruncate ==
    /\ pc = "wav_written"
    /\ \E n \in 0..(Len(disk[WavPath(0, 1)]) - 1) :
          disk' = [disk EXCEPT ![WavPath(0, 1)] = SubSeq(@, 1, n)]
    /\ pc' = "wav_damaged"
    /\ edits' = edits + 1
    /\ UNCHANGED <<xws, layout, out, pass, chunks, table1_offset, i, kwb_index,
                   acc, k_idx, table1_start, table1_offsets, disk2, layout2,
                   wav_args, wav_ret>>

\* one byte of the outer, inner or data tag is overwritten
WavRetag ==
    /\ pc = "wav_written"
    /\ \E pos \in {0, 8, 12 + 8 + fmt_chunk_size} :
          disk' = [disk EXCEPT ![WavPath(0, 1)] = WriteAt(@, pos, <<0>>)]
    /\ pc' = "wav_damaged"
    /\ edits' = edits + 1
    /\ UNCHANGED <<xws, layout, out, pass, chunks, table1_offset, i, kwb_index,
                   acc, k_idx, table1_start, table1_offsets, disk2, layout2,
                   wav_args, wav_ret>>

WavRead ==
    /\ pc \in {"wav_written", "wav_damaged"}
    /\ wav_ret' = read_wav_data(disk[WavPath(0, 1)])
    /\ pc' = "wav_read"
    /\ UNCHANGED <<xws, disk, layout, out, pass, chunks, table1_offset, i,
                   kwb_index, acc, k_idx, table1_start, table1_offsets, disk2,
                   layout2, edits, wav_args>>

NextWav == WavWrite \/ WavTruncate \/ WavRetag \/ WavRead

SpecWav == InitWav /\ [][NextWav]_vars

----------------------------------------------------------------------------
(* Claims about the audio-container codec *)

\* the arguments for which write_wav_msadpcm runs to completion
ValidWavArgs(a) ==
    ~write_wav_msadpcm(a.data, a.channels, a.sample_rate, a.block_align).raised

\* C7: the file written by write_wav_msadpcm(x, ...) holds x unmodified in one
\* data section that directly follows the format section (found by the format
\* section's declared size) and ends the file, and read_wav_data returns x.
C7_WavRoundTrip ==
    /\ (pc = "wav_written") =>
          LET f == disk[WavPath(0, 1)]
              fmt_size == read_u32le(f, 16)
              data_at == 12 + 8 + fmt_size
          IN  /\ ValidWavArgs(wav_args)
              /\ Slice(f, 12, 4) = TagFmt
              /\ Slice(f, data_at, 4) = TagData
              /\ read_u32le(f, data_at + 4) = Len(wav_args.data)
              /\ Slice(f, data_at + 8, Len(f)) = wav_args.data
              /\ read_u32le(f, 4) = Len(f) - 8
    /\ (pc = "wav_read" /\ edits = 0) =>
          /\ ~wav_ret.raised
          /\ wav_ret.data = wav_args.data

C7_Witness ==
    /\ pc = "wav_read" /\ edits = 0
    /\ Len(wav_args.data) = MaxData
    /\ wav_ret.data = wav_args.data

\* C9 (as claimed): read_wav_data never raises and returns an empty stream for
\* every damaged file: a wrong outer/inner tag, a cut section header, no data
\* section, or a data section shorter than its declared size.
C9_DamagedReadsEmpty ==
    (pc = "wav_read" /\ edits > 0) =>
        /\ ~wav_ret.raised
        /\ wav_ret.data = <<>>

====
